---- MODULE Spec2Model ----
(***************************************************************************)
(* A model of the debt ledger web application: the session tokens of       *)
(* auth.py, the tables of models.py and the request handlers of main.py.   *)
(*                                                                         *)
(* Display-only columns (DebtGroup.name, DebtItem.note, created_at) carry  *)
(* no behaviour that a handler branches on and are left out of the rows.   *)
(***************************************************************************)
EXTENDS Integers, FiniteSets, Sequences, Bags, TLC

\* ------------------------------------------------------------------ bounds

\* Rows a table (debt_groups, debt_items) holds at most; ids are 1..MaxRows.
MaxRows == 2
\* Clock advances taken at most.
MaxTicks == 2
\* Requests in flight at once in the interleaved specification.
MaxReqs == 2

\* Form inputs.
Usernames == {"bob", "Bob"}
Passwords == {"pw1", "pw2"}
Amounts == {-3, 10}

\* --------------------------------------------------------------- auth.py

SECRET_KEY == "dev-secret-key-change-me"
\* A key that is not the server's: what a forger signs with.
OtherKey == "not-the-server-key"
SESSION_MAX_AGE == 60 * 60 * 24 * 14

\* Python's None as the result of read_session_token.
None == -1

\* bcrypt: the digest embeds the salt it was computed with.
bcrypt(salt, password) == <<"bcrypt", salt, password>>

Salts == {1}

hash_password(password, salt) == [salt |-> salt, digest |-> bcrypt(salt, password)]

verify_password(plain_password, hashed_password) ==
    bcrypt(hashed_password.salt, plain_password) = hashed_password.digest

\* The keyed MAC of URLSafeTimedSerializer over payload and timestamp.
Sign(key, user_id, ts) == <<key, user_id, ts>>

\* request.cookies.get(SESSION_COOKIE) when the request carries no cookie.
NoCookie == [present |-> FALSE, user_id |-> 0, ts |-> 0, sig |-> Sign("", 0, 0)]

\* serializer.dumps({"user_id": user_id}) at time t.
create_session_token(user_id, t) ==
    [present |-> TRUE, user_id |-> user_id, ts |-> t, sig |-> Sign(SECRET_KEY, user_id, t)]

\* serializer.loads(token, max_age) at time t: the exception raised, or the
\* payload.
loads_no_max_age(token, max_age, t) ==
    IF token.sig # Sign(SECRET_KEY, token.user_id, token.ts)
    THEN [exc |-> "BadSignature", user_id |-> None]
    ELSE [exc |-> "", user_id |-> token.user_id]

loads(token, max_age, t) ==
    IF token.sig # Sign(SECRET_KEY, token.user_id, token.ts)
    THEN [exc |-> "BadSignature", user_id |-> None]
    ELSE IF t - token.ts > max_age
    THEN [exc |-> "SignatureExpired", user_id |-> None]
    ELSE [exc |-> "", user_id |-> token.user_id]

\* read_session_token: [raised, value]; raised is an exception it lets through.
read_session_token(token, t) ==
    LET data == loads(token, SESSION_MAX_AGE, t)
    IN  IF data.exc \in {"BadSignature", "SignatureExpired"}
        THEN [raised |-> FALSE, value |-> None]
        ELSE IF data.exc # ""
        THEN [raised |-> TRUE, value |-> None]
        ELSE [raised |-> FALSE, value |-> data.user_id]

\* ------------------------------------------------------------- the state

VARIABLES
    db,       \* the Data Store: [users, groups, items], the three tables
    now,      \* the clock the serializer reads, in seconds
    jar,      \* the session cookie the browser holds
    reqs      \* requests between their lookup and their commit

vars == <<db, now, jar, reqs>>

\* users: rows [id, username, password_hash]; groups (debt_groups): rows
\* [id, user_id]; items (debt_items): rows [id, user_id, group_id, amount].
Store(users, groups, items) == [users |-> users, groups |-> groups, items |-> items]

\* ------------------------------------------------------------- responses

NoLocation == <<>>
LoginPage == <<"login">>
DashboardPage == <<"dashboard">>
GroupPage(group_id) == <<"groups", group_id>>

KeepCookie == [op |-> "keep", token |-> NoCookie]
SetCookie(token) == [op |-> "set", token |-> token]
DeleteCookie == [op |-> "delete", token |-> NoCookie]

\* What the client gets back: the route answering, the status, the Location
\* header, the user the handler ran as (0: none), the cookie header, and for a
\* rendered page its rows and its total.
Response(route, status, location, user, cookie, rows, total) ==
    [route |-> route, status |-> status, location |-> location, user |-> user,
     cookie |-> cookie, rows |-> rows, total |-> total]

Plain(route, status, location, user) ==
    Response(route, status, location, user, KeepCookie, {}, 0)

\* raise HTTPException(status_code=302, headers={"Location": "/login"})
RedirectToLogin(route) == Plain(route, 302, LoginPage, 0)

\* raise HTTPException(status_code=404)
NotFound(route, user_id) == Plain(route, 404, NoLocation, user_id)

\* A handler's outcome: its response and the store it leaves.
Outcome(response, d) == [resp |-> response, db |-> d]

\* ------------------------------------------------- main.py: the resolver

UserIds(d) == {u.id : u \in d.users}

\* get_current_user: [status, user]; 401 is the HTTPException it raises.
get_current_user_no_row(token, d, t) ==
    IF ~token.present
    THEN [status |-> 401, user |-> 0]
    ELSE LET r == read_session_token(token, t)
         IN  IF r.raised
             THEN [status |-> 500, user |-> 0]
             ELSE IF r.value = None \/ r.value = 0
             THEN [status |-> 401, user |-> 0]
             ELSE [status |-> 200, user |-> r.value]

get_current_user(token, d, t) ==
    IF ~token.present
    THEN [status |-> 401, user |-> 0]
    ELSE LET r == read_session_token(token, t)
         IN  IF r.raised
             THEN [status |-> 500, user |-> 0]
             ELSE IF r.value = None \/ r.value = 0
             THEN [status |-> 401, user |-> 0]
             ELSE IF r.value \notin UserIds(d)
             THEN [status |-> 401, user |-> 0]
             ELSE [status |-> 200, user |-> r.value]

\* require_user: every HTTPException of get_current_user becomes the redirect.
require_user(token, d, t) ==
    LET r == get_current_user(token, d, t)
    IN  IF r.status = 401 THEN [status |-> 302, user |-> 0] ELSE r

\* The values the clock takes.
Times == {(k \div 2) * (SESSION_MAX_AGE + 1) + (k % 2) * SESSION_MAX_AGE : k \in 0 .. MaxTicks}

TokenUserIds == 0 .. Cardinality(Usernames)

\* The cookies a request can carry at time t: none; a token the server signed
\* at some earlier time for some user id (also one issued before the store was
\* recreated, or for the falsy id 0); such a token with its payload altered and
\* the signature kept; a token signed with another key.
Cookies(t) ==
    LET signed == {create_session_token(u, s) : u \in TokenUserIds, s \in {x \in Times : x <= t}}
        fresh == create_session_token(1, t)
    IN  {NoCookie} \cup {k \in signed : k.user_id # 0 \/ k.ts = t}
        \cup {[fresh EXCEPT !.user_id = 2]}
        \cup {[fresh EXCEPT !.sig = Sign(OtherKey, 1, t)]}

\* --------------------------------------------------- models.py: the store

RowIds == 1 .. MaxRows
GroupIds(d) == {g.id : g \in d.groups}
ItemIds(d) == {i.id : i \in d.items}

\* User.id: the integer primary key of a table no handler deletes from.
NewUserId(d) == Cardinality(d.users) + 1

\* User.username, unique=True: the index an insert is checked against.
username_taken(d, username) == \E u \in d.users : u.username = username

\* DebtGroup.items, cascade="all, delete-orphan": what db.delete(group) loads
\* and deletes with the group.
cascade_none(d, group_id) == {}

cascade_items(d, group_id) == {i \in d.items : i.group_id = group_id}

\* DebtItem.group_id and DebtItem.user_id, ForeignKey(...): the rows an insert
\* must refer to for the Data Store to accept it.
references_exist(d, item) ==
    item.group_id \in GroupIds(d) /\ item.user_id \in UserIds(d)

RECURSIVE SumAmount(_)
SumAmount(rows) ==
    IF rows = {} THEN 0
    ELSE LET r == CHOOSE x \in rows : TRUE
         IN  r.amount + SumAmount(rows \ {r})

\* func.sum over a column: NULL when no row has a value.
Null == [null |-> TRUE, value |-> 0]
sql_sum(rows) == IF rows = {} THEN Null ELSE [null |-> FALSE, value |-> SumAmount(rows)]
coalesce(x, default) == IF x.null THEN default ELSE x.value

\* ------------------------------------------------- main.py: the handlers

\* db.query(DebtGroup).filter(DebtGroup.id == group_id,
\*                            DebtGroup.user_id == user.id).first()
scoped_group_by_id_only(d, group_id, user_id) == {g \in d.groups : g.id = group_id}

scoped_group(d, group_id, user_id) ==
    {g \in d.groups : g.id = group_id /\ g.user_id = user_id}

\* db.query(DebtItem).filter(DebtItem.id == item_id, DebtItem.group_id ==
\*                           group_id, DebtItem.user_id == user.id).first()
scoped_item_any_user(d, item_id, group_id, user_id) ==
    {i \in d.items : i.id = item_id /\ i.group_id = group_id}

scoped_item(d, item_id, group_id, user_id) ==
    {i \in d.items : i.id = item_id /\ i.group_id = group_id /\ i.user_id = user_id}

\* register, after the existence check: db.add(user); db.commit(); the token
\* and the cookie. The unique index rejects a username present at the commit
\* and the IntegrityError leaves the handler as a server error.
register_commit(d, t, username, password_hash) ==
    IF username_taken(d, username)
    THEN Outcome(Plain("register", 500, NoLocation, 0), d)
    ELSE LET user == [id |-> NewUserId(d), username |-> username,
                      password_hash |-> password_hash]
         IN  Outcome(Response("register", 302, DashboardPage, user.id,
                              SetCookie(create_session_token(user.id, t)), {}, 0),
                     [d EXCEPT !.users = @ \cup {user}])

register_no_check(d, t, username, password, salt) ==
    register_commit(d, t, username, hash_password(password, salt))

register(d, t, username, password, salt) ==
    IF username_taken(d, username)
    THEN Outcome(Plain("register", 400, NoLocation, 0), d)
    ELSE register_commit(d, t, username, hash_password(password, salt))

\* login: .first() returns the row of that username (the index keeps it unique).
login(d, t, username, password) ==
    LET found == {u \in d.users : u.username = username}
    IN  IF found = {}
        THEN Outcome(Plain("login", 400, NoLocation, 0), d)
        ELSE LET user == CHOOSE u \in found : TRUE
             IN  IF ~verify_password(password, user.password_hash)
                 THEN Outcome(Plain("login", 400, NoLocation, 0), d)
                 ELSE Outcome(Response("login", 302, DashboardPage, user.id,
                                       SetCookie(create_session_token(user.id, t)), {}, 0),
                              d)

logout_keep_cookie(d) == Outcome(Plain("logout", 302, LoginPage, 0), d)

logout(d) == Outcome(Response("logout", 302, LoginPage, 0, DeleteCookie, {}, 0), d)

\* dashboard's first query: debt_groups of the user, outer-joined to
\* debt_items on group_id, grouped by group, coalesce(sum(amount), 0).
joined(d, group) == {i \in d.items : i.group_id = group.id}

group_balances_inner_join(d, user_id) ==
    {[group |-> g, balance |-> coalesce(sql_sum(joined(d, g)), 0)] :
        g \in {x \in d.groups : x.user_id = user_id /\ joined(d, x) # {}}}

group_balances(d, user_id) ==
    {[group |-> g, balance |-> coalesce(sql_sum(joined(d, g)), 0)] :
        g \in {x \in d.groups : x.user_id = user_id}}

\* dashboard's second query: coalesce(sum(amount), 0) over the user's items.
total_balance(d, user_id) ==
    coalesce(sql_sum({i \in d.items : i.user_id = user_id}), 0)

dashboard(d, t, token) ==
    LET auth == require_user(token, d, t)
    IN  IF auth.status # 200
        THEN Outcome(RedirectToLogin("dashboard"), d)
        ELSE Outcome(Response("dashboard", 200, NoLocation, auth.user, KeepCookie,
                              group_balances(d, auth.user), total_balance(d, auth.user)),
                     d)

\* new_id: the primary key the Data Store gives the inserted row.
create_group(d, t, token, new_id) ==
    LET auth == require_user(token, d, t)
    IN  IF auth.status # 200
        THEN Outcome(RedirectToLogin("create_group"), d)
        ELSE Outcome(Plain("create_group", 302, DashboardPage, auth.user),
                     [d EXCEPT !.groups = @ \cup {[id |-> new_id, user_id |-> auth.user]}])

group_detail(d, t, token, group_id) ==
    LET auth == require_user(token, d, t)
    IN  IF auth.status # 200
        THEN Outcome(RedirectToLogin("group_detail"), d)
        ELSE LET found == scoped_group(d, group_id, auth.user)
             IN  IF found = {}
                 THEN Outcome(NotFound("group_detail", auth.user), d)
                 ELSE LET group == CHOOSE g \in found : TRUE
                          rows == {i \in d.items : i.group_id = group.id
                                                   /\ i.user_id = auth.user}
                      IN  Outcome(Response("group_detail", 200, NoLocation, auth.user,
                                           KeepCookie, rows, SumAmount(rows)),
                                  d)

\* add_item, after the scoped lookup: db.add(item); db.commit(); the redirect.
add_item_commit(d, user_id, group_id, amount, new_id) ==
    LET item == [id |-> new_id, user_id |-> user_id, group_id |-> group_id,
                 amount |-> amount]
    IN  IF ~references_exist(d, item)
        THEN Outcome(Plain("add_item", 500, NoLocation, user_id), d)
        ELSE Outcome(Plain("add_item", 302, GroupPage(group_id), user_id),
                     [d EXCEPT !.items = @ \cup {item}])

add_item(d, t, token, group_id, amount, new_id) ==
    LET auth == require_user(token, d, t)
    IN  IF auth.status # 200
        THEN Outcome(RedirectToLogin("add_item"), d)
        ELSE LET found == scoped_group(d, group_id, auth.user)
             IN  IF found = {}
                 THEN Outcome(NotFound("add_item", auth.user), d)
                 ELSE LET group == CHOOSE g \in found : TRUE
                      IN  add_item_commit(d, auth.user, group.id, amount, new_id)

\* delete_item, after the scoped lookup: db.delete(item); db.commit().
delete_item_commit(d, user_id, item_id, group_id) ==
    Outcome(Plain("delete_item", 302, GroupPage(group_id), user_id),
            [d EXCEPT !.items = {i \in @ : i.id # item_id}])

delete_item(d, t, token, group_id, item_id) ==
    LET auth == require_user(token, d, t)
    IN  IF auth.status # 200
        THEN Outcome(RedirectToLogin("delete_item"), d)
        ELSE LET found == scoped_item(d, item_id, group_id, auth.user)
             IN  IF found = {}
                 THEN Outcome(NotFound("delete_item", auth.user), d)
                 ELSE LET item == CHOOSE i \in found : TRUE
                      IN  delete_item_commit(d, auth.user, item.id, group_id)

\* delete_group, after the scoped lookup: db.delete(group); db.commit(): the
\* group's items go with it in the same flush.
delete_group_commit(d, user_id, group_id) ==
    Outcome(Plain("delete_group", 302, DashboardPage, user_id),
            [d EXCEPT !.items = @ \ cascade_items(d, group_id),
                      !.groups = {g \in @ : g.id # group_id}])

delete_group(d, t, token, group_id) ==
    LET auth == require_user(token, d, t)
    IN  IF auth.status # 200
        THEN Outcome(RedirectToLogin("delete_group"), d)
        ELSE LET found == scoped_group(d, group_id, auth.user)
             IN  IF found = {}
                 THEN Outcome(NotFound("delete_group", auth.user), d)
                 ELSE LET group == CHOOSE g \in found : TRUE
                      IN  delete_group_commit(d, auth.user, group.id)

\* ------------------------------------------------------ requests and time

\* The browser keeps, replaces or drops its cookie as the response says.
Browser(response) ==
    CASE response.cookie.op = "set" -> response.cookie.token
      [] response.cookie.op = "delete" -> NoCookie
      [] OTHER -> jar

\* One request served from lookup to commit: the store and the browser after it.
Handle(outcome) ==
    /\ db' = outcome.db
    /\ jar' = Browser(outcome.resp)
    /\ UNCHANGED <<now, reqs>>

Register(username, password, salt) == Handle(register(db, now, username, password, salt))

Login(username, password) == Handle(login(db, now, username, password))

Logout == Handle(logout(db))

Dashboard(token) == Handle(dashboard(db, now, token))

CreateGroup(token) ==
    \E new_id \in RowIds \ GroupIds(db) : Handle(create_group(db, now, token, new_id))

GroupDetail(token, group_id) == Handle(group_detail(db, now, token, group_id))

AddItem(token, group_id, amount) ==
    \E new_id \in RowIds \ ItemIds(db) :
        Handle(add_item(db, now, token, group_id, amount, new_id))

DeleteItem(token, group_id, item_id) ==
    Handle(delete_item(db, now, token, group_id, item_id))

DeleteGroup(token, group_id) == Handle(delete_group(db, now, token, group_id))

\* Time passes between requests. The clock is read at the instants at which a
\* token's age is exactly the maximum, or a second more: it advances by
\* SESSION_MAX_AGE and by one second in turn.
Instant(k) == (k \div 2) * (SESSION_MAX_AGE + 1) + (k % 2) * SESSION_MAX_AGE

TicksTaken(t) ==
    2 * (t \div (SESSION_MAX_AGE + 1))
    + (IF t % (SESSION_MAX_AGE + 1) = SESSION_MAX_AGE THEN 1 ELSE 0)

Tick ==
    /\ TicksTaken(now) < MaxTicks
    /\ now' = Instant(TicksTaken(now) + 1)
    /\ UNCHANGED <<db, jar, reqs>>

\* ------------------------------------------- one request at a time: Spec

Init ==
    /\ db = Store({}, {}, {})
    /\ now = 0
    /\ jar = NoCookie
    /\ reqs = EmptyBag

\* Every route, every input.
Next ==
    \/ \E username \in Usernames, password \in Passwords, salt \in Salts :
           Register(username, password, salt)
    \/ \E username \in Usernames, password \in Passwords : Login(username, password)
    \/ Logout
    \/ \E token \in Cookies(now) : Dashboard(token)
    \/ \E token \in Cookies(now) : CreateGroup(token)
    \/ \E token \in Cookies(now), group_id \in RowIds : GroupDetail(token, group_id)
    \/ \E token \in Cookies(now), group_id \in RowIds, amount \in Amounts :
           AddItem(token, group_id, amount)
    \/ \E token \in Cookies(now), group_id \in RowIds, item_id \in RowIds :
           DeleteItem(token, group_id, item_id)
    \/ \E token \in Cookies(now), group_id \in RowIds : DeleteGroup(token, group_id)
    \/ Tick

Spec == Init /\ [][Next]_vars

\* The ledger of two users: the routes that read and write groups and items.
\* No route of the ledger reads a password or the clock beyond the token
\* check: one password is drawn and time stands still.
NextLedger ==
    \/ \E username \in Usernames, salt \in Salts : Register(username, "pw1", salt)
    \/ \E token \in Cookies(now) : Dashboard(token)
    \/ \E token \in Cookies(now) : CreateGroup(token)
    \/ \E token \in Cookies(now), group_id \in RowIds : GroupDetail(token, group_id)
    \/ \E token \in Cookies(now), group_id \in RowIds, amount \in Amounts :
           AddItem(token, group_id, amount)
    \/ \E token \in Cookies(now), group_id \in RowIds, item_id \in RowIds :
           DeleteItem(token, group_id, item_id)
    \/ \E token \in Cookies(now), group_id \in RowIds : DeleteGroup(token, group_id)

SpecLedger == Init /\ [][NextLedger]_vars

\* Accounts and sessions over time: register, login, logout, a page that
\* requires a user, and the clock.
NextAccounts ==
    \/ \E username \in Usernames, password \in Passwords, salt \in Salts :
           Register(username, password, salt)
    \/ \E username \in Usernames, password \in Passwords : Login(username, password)
    \/ Logout
    \/ \E token \in Cookies(now) : Dashboard(token)
    \/ Tick

SpecAccounts == Init /\ [][NextAccounts]_vars

\* The routes that require a user, over time: the ledger with the clock
\* running. The check of the cookie reads neither password nor amount: one of
\* each is drawn.
NextGuarded ==
    \/ \E username \in Usernames, salt \in Salts : Register(username, "pw1", salt)
    \/ \E token \in Cookies(now) : Dashboard(token)
    \/ \E token \in Cookies(now) : CreateGroup(token)
    \/ \E token \in Cookies(now), group_id \in RowIds : GroupDetail(token, group_id)
    \/ \E token \in Cookies(now), group_id \in RowIds : AddItem(token, group_id, 10)
    \/ \E token \in Cookies(now), group_id \in RowIds, item_id \in RowIds :
           DeleteItem(token, group_id, item_id)
    \/ \E token \in Cookies(now), group_id \in RowIds : DeleteGroup(token, group_id)
    \/ Tick

SpecGuarded == Init /\ [][NextGuarded]_vars

\* ------------------------------- requests that interleave: SpecInterleaved

\* A handler reads (require_user and its scoped lookup), then writes (db.add or
\* db.delete, db.commit). Requests served by different workers interleave
\* between the two; the Data Store applies each commit as one transaction.
InFlight(route, user_id, group_id, item_id, amount, username, password_hash) ==
    [route |-> route, user |-> user_id, group_id |-> group_id, item_id |-> item_id,
     amount |-> amount, username |-> username, password_hash |-> password_hash]

NoHash == hash_password("", 1)

\* What a handler's lookup leaves it with: its answer when the lookup ends the
\* request, or else the request it goes on to commit.
register_lookup(d, username, password, salt) ==
    IF username_taken(d, username)
    THEN [done |-> TRUE, outcome |-> Outcome(Plain("register", 400, NoLocation, 0), d)]
    ELSE [done |-> FALSE,
          request |-> InFlight("register", 0, 0, 0, 0, username,
                               hash_password(password, salt))]

add_item_lookup(d, t, token, group_id, amount) ==
    LET auth == require_user(token, d, t)
    IN  IF auth.status # 200
        THEN [done |-> TRUE, outcome |-> Outcome(RedirectToLogin("add_item"), d)]
        ELSE LET found == scoped_group(d, group_id, auth.user)
             IN  IF found = {}
                 THEN [done |-> TRUE, outcome |-> Outcome(NotFound("add_item", auth.user), d)]
                 ELSE LET group == CHOOSE g \in found : TRUE
                      IN  [done |-> FALSE,
                           request |-> InFlight("add_item", auth.user, group.id, 0,
                                                amount, "", NoHash)]

delete_item_lookup(d, t, token, group_id, item_id) ==
    LET auth == require_user(token, d, t)
    IN  IF auth.status # 200
        THEN [done |-> TRUE, outcome |-> Outcome(RedirectToLogin("delete_item"), d)]
        ELSE LET found == scoped_item(d, item_id, group_id, auth.user)
             IN  IF found = {}
                 THEN [done |-> TRUE,
                       outcome |-> Outcome(NotFound("delete_item", auth.user), d)]
                 ELSE LET item == CHOOSE i \in found : TRUE
                      IN  [done |-> FALSE,
                           request |-> InFlight("delete_item", auth.user, group_id,
                                                item.id, 0, "", NoHash)]

delete_group_lookup(d, t, token, group_id) ==
    LET auth == require_user(token, d, t)
    IN  IF auth.status # 200
        THEN [done |-> TRUE, outcome |-> Outcome(RedirectToLogin("delete_group"), d)]
        ELSE LET found == scoped_group(d, group_id, auth.user)
             IN  IF found = {}
                 THEN [done |-> TRUE,
                       outcome |-> Outcome(NotFound("delete_group", auth.user), d)]
                 ELSE LET group == CHOOSE g \in found : TRUE
                      IN  [done |-> FALSE,
                           request |-> InFlight("delete_group", auth.user, group.id, 0,
                                                0, "", NoHash)]

\* The commit of a request in flight, against the store as it is by then.
commit(d, t, request, new_id) ==
    CASE request.route = "register" ->
            register_commit(d, t, request.username, request.password_hash)
      [] request.route = "add_item" ->
            add_item_commit(d, request.user, request.group_id, request.amount, new_id)
      [] request.route = "delete_item" ->
            delete_item_commit(d, request.user, request.item_id, request.group_id)
      [] request.route = "delete_group" ->
            delete_group_commit(d, request.user, request.group_id)

Lookup(looked) ==
    IF looked.done
    THEN Handle(looked.outcome)
    ELSE /\ BagCardinality(reqs) < MaxReqs
         /\ reqs' = reqs (+) SetToBag({looked.request})
         /\ UNCHANGED <<db, now, jar>>

RegisterLookup(username, password, salt) ==
    Lookup(register_lookup(db, username, password, salt))

AddItemLookup(token, group_id, amount) ==
    Lookup(add_item_lookup(db, now, token, group_id, amount))

DeleteItemLookup(token, group_id, item_id) ==
    Lookup(delete_item_lookup(db, now, token, group_id, item_id))

DeleteGroupLookup(token, group_id) ==
    Lookup(delete_group_lookup(db, now, token, group_id))

Commit(request) ==
    /\ BagIn(request, reqs)
    /\ reqs' = reqs (-) SetToBag({request})
    /\ \E new_id \in (IF request.route = "add_item" THEN RowIds \ ItemIds(db) ELSE {0}) :
           LET outcome == commit(db, now, request, new_id)
           IN  /\ db' = outcome.db
               /\ jar' = Browser(outcome.resp)
    /\ now' = now

\* The writes that race are those of one user on one username: the scoped
\* lookups keep the users apart, and the interleavings do not depend on which
\* password or amount a form carries. One of each is drawn.
NextInterleaved ==
    \/ \E salt \in Salts : RegisterLookup("bob", "pw1", salt)
    \/ \E token \in Cookies(now) : CreateGroup(token)
    \/ \E token \in Cookies(now), group_id \in RowIds : AddItemLookup(token, group_id, 10)
    \/ \E token \in Cookies(now), group_id \in RowIds, item_id \in RowIds :
           DeleteItemLookup(token, group_id, item_id)
    \/ \E token \in Cookies(now), group_id \in RowIds : DeleteGroupLookup(token, group_id)
    \/ \E request \in BagToSet(reqs) : Commit(request)

SpecInterleaved == Init /\ [][NextInterleaved]_vars

\* ---------------------------------------------------------------- claims

OwnedByAnother(group_id, user_id) ==
    \E g \in db.groups : g.id = group_id /\ g.user_id # user_id

ItemOfAnother(item_id, user_id) ==
    \E i \in db.items : i.id = item_id /\ i.user_id # user_id

\* An id no row has.
Missing == MaxRows + 1

\* C1: a request of an authenticated user A to group_detail, add_item,
\* delete_item or delete_group that names a group or an item of another user B
\* is answered 404, with the very response an id that does not exist gets, and
\* leaves the store unchanged.
C1_Isolation ==
    \A token \in Cookies(now), group_id \in RowIds, item_id \in RowIds :
        LET A == get_current_user(token, db, now).user
        IN  get_current_user(token, db, now).status = 200 =>
              /\ OwnedByAnother(group_id, A) =>
                   /\ group_detail(db, now, token, group_id)
                        = Outcome(NotFound("group_detail", A), db)
                   /\ group_detail(db, now, token, group_id)
                        = group_detail(db, now, token, Missing)
                   /\ \A amount \in Amounts, new_id \in RowIds :
                        /\ add_item(db, now, token, group_id, amount, new_id)
                             = Outcome(NotFound("add_item", A), db)
                        /\ add_item(db, now, token, group_id, amount, new_id)
                             = add_item(db, now, token, Missing, amount, new_id)
                   /\ delete_group(db, now, token, group_id)
                        = Outcome(NotFound("delete_group", A), db)
                   /\ delete_group(db, now, token, group_id)
                        = delete_group(db, now, token, Missing)
              /\ (OwnedByAnother(group_id, A) \/ ItemOfAnother(item_id, A)) =>
                   /\ delete_item(db, now, token, group_id, item_id)
                        = Outcome(NotFound("delete_item", A), db)
                   /\ delete_item(db, now, token, group_id, item_id)
                        = delete_item(db, now, token, Missing, Missing)

\* C1's case: the browser's user asks to delete an item of another user, in
\* that user's group, and gets 404.
C1_Witness ==
    \E i \in db.items :
        /\ get_current_user(jar, db, now).status = 200
        /\ i.user_id # jar.user_id
        /\ delete_item(db, now, jar, i.group_id, i.id).resp.status = 404

\* C2: every stored item belongs to the user its group belongs to.
C2_ItemOwnerIsGroupOwner ==
    \A i \in db.items : \E g \in db.groups : g.id = i.group_id /\ g.user_id = i.user_id

\* C2's case: two users each hold an item.
C2_Witness ==
    \E i \in db.items, j \in db.items : i.user_id # j.user_id

\* C3: when delete_group succeeds for the caller's group g, the store it
\* leaves holds neither g nor any item whose group_id was g, no group_detail
\* and no delete_item on that store finds them, and every other group and
\* every item of another group is as before.
C3_DeleteGroupCascades ==
    \A token \in Cookies(now), group_id \in RowIds :
        LET caller == get_current_user(token, db, now).user
            after == delete_group(db, now, token, group_id)
            gone == {i \in db.items : i.group_id = group_id}
        IN  after.resp = Plain("delete_group", 302, DashboardPage, caller) =>
              /\ after.db.users = db.users
              /\ after.db.groups = {g \in db.groups : g.id # group_id}
              /\ after.db.items = db.items \ gone
              /\ \A other \in Cookies(now) :
                    /\ group_detail(after.db, now, other, group_id).resp.status # 200
                    /\ \A g \in RowIds, i \in gone :
                          /\ delete_item(after.db, now, other, g, i.id).resp.status
                               \in {302, 404}
                          /\ delete_item(after.db, now, other, g, i.id).resp.location
                               # GroupPage(g)
                          /\ delete_item(after.db, now, other, g, i.id).db = after.db

\* C3's case: the browser's user deletes a group that holds an item while
\* another group holds one too.
C3_Witness ==
    \E i \in db.items, j \in db.items :
        /\ i.group_id # j.group_id
        /\ delete_group(db, now, jar, i.group_id).resp
             = Plain("delete_group", 302, DashboardPage, jar.user_id)
        /\ delete_group(db, now, jar, i.group_id).db.items # {}

LoggedIn(user_id, t) ==
    Response("login", 302, DashboardPage, user_id,
             SetCookie(create_session_token(user_id, t)), {}, 0)

\* C4: register with a username already present is rejected with status 400 and
\* no cookie, creates no user and changes no password hash, and login with an
\* account's username and password issues a token for its id; a username not
\* present (one differing in case only, too) is registered.
C4_DuplicateUsername ==
    /\ \A username \in Usernames, password \in Passwords, salt \in Salts :
          LET after == register(db, now, username, password, salt)
          IN  IF \E u \in db.users : u.username = username
              THEN /\ after = Outcome(Plain("register", 400, NoLocation, 0), db)
                   /\ after.resp.cookie = KeepCookie
              ELSE /\ after.resp.status = 302
                   /\ Cardinality(after.db.users) = Cardinality(db.users) + 1
                   /\ db.users \subseteq after.db.users
    /\ \A u \in db.users, p \in Passwords :
          (u.password_hash.digest = bcrypt(u.password_hash.salt, p))
          => login(db, now, u.username, p).resp = LoggedIn(u.id, now)

\* C4's case: both spellings of the name are registered, the browser holds
\* the second account's cookie, and the first account still logs in.
C4_Witness ==
    /\ {u.username : u \in db.users} = Usernames
    /\ \E u \in db.users :
          /\ u.id # jar.user_id
          /\ jar.present
          /\ register(db, now, u.username, "pw2", 1).resp.status = 400
          /\ login(db, now, u.username, "pw1").resp = LoggedIn(u.id, now)

\* Tokens whose signature the server secret did not produce over their
\* payload and timestamp: altered after signing, or signed with another key.
NotServerSigned ==
    {[present |-> TRUE, user_id |-> u, ts |-> s, sig |-> Sign(k, v, r)] :
        u \in TokenUserIds, v \in TokenUserIds, k \in {SECRET_KEY, OtherKey},
        s \in {x \in Times : x <= now}, r \in {x \in Times : x <= now}}
    \ {create_session_token(u, s) : u \in TokenUserIds, s \in Times}

\* C5: read_session_token of a token create_session_token issued for user_id
\* returns user_id at issuance and while its age is at most SESSION_MAX_AGE,
\* returns None once its age exceeds that, returns None for a token the server
\* secret did not sign, and never raises.
C5_TokenValidity ==
    /\ \A user_id \in TokenUserIds, issued \in {x \in Times : x <= now} :
          LET token == create_session_token(user_id, issued)
          IN  /\ read_session_token(token, issued) = [raised |-> FALSE, value |-> user_id]
              /\ read_session_token(token, now)
                   = [raised |-> FALSE,
                      value |-> IF now - issued <= 14 * 86400 THEN user_id ELSE None]
    /\ \A token \in NotServerSigned :
          read_session_token(token, now) = [raised |-> FALSE, value |-> None]

\* C5's case: the cookie the browser got at time 0 is a second past its
\* maximum age and reads as None.
C5_Witness ==
    /\ jar.present
    /\ jar.ts = 0
    /\ now = SESSION_MAX_AGE + 1
    /\ read_session_token(jar, now).value = None
    /\ read_session_token(jar, SESSION_MAX_AGE).value = jar.user_id

\* The four ways a session cookie fails: missing, not signed by the server,
\* expired, naming a user id with no row.
Unauthenticated(token) ==
    \/ ~token.present
    \/ token.sig # Sign(SECRET_KEY, token.user_id, token.ts)
    \/ now - token.ts > SESSION_MAX_AGE
    \/ \A u \in db.users : u.id # token.user_id

\* The outcomes of the six routes that require a user, for one cookie.
AuthRoutes(token) ==
    {dashboard(db, now, token)}
    \cup {create_group(db, now, token, id) : id \in RowIds \ GroupIds(db)}
    \cup {group_detail(db, now, token, g) : g \in RowIds}
    \cup {add_item(db, now, token, g, a, id) :
             g \in RowIds, a \in Amounts, id \in RowIds \ ItemIds(db)}
    \cup {delete_item(db, now, token, g, i) : g \in RowIds, i \in RowIds}
    \cup {delete_group(db, now, token, g) : g \in RowIds}

\* C6: every route that requires a user answers a request whose cookie is
\* missing, not validly signed, expired or names a user with no row with the
\* redirect to /login (never 404 or 200) and leaves the store unchanged; with
\* a valid cookie of an existing user it runs as that user: it answers as that
\* user and the rows it creates are that user's.
C6_RequireUser ==
    \A token \in Cookies(now) \cup {jar} :
        \A after \in AuthRoutes(token) :
            IF Unauthenticated(token)
            THEN after = Outcome(RedirectToLogin(after.resp.route), db)
            ELSE /\ after.resp.user = token.user_id
                 /\ after.resp.location # LoginPage
                 /\ \A g \in after.db.groups \ db.groups : g.user_id = token.user_id
                 /\ \A i \in after.db.items \ db.items : i.user_id = token.user_id

\* C6's case: the browser's cookie has expired while its user and a group of
\* theirs exist, and delete_group on that group redirects to /login.
C6_Witness ==
    \E g \in db.groups :
        /\ jar.present
        /\ g.user_id = jar.user_id
        /\ now - jar.ts > SESSION_MAX_AGE
        /\ delete_group(db, now, jar, g.id) = Outcome(RedirectToLogin("delete_group"), db)

\* C7: logout answers with the redirect to /login and the order to drop the
\* cookie and changes nothing in the store; the browser's next request, sent
\* without a cookie, is redirected to /login; the token the browser held still
\* resolves to its user at every later time within its maximum age.
C7_LogoutIsClientSide ==
    LET after == logout(db)
        dropped == Browser(after.resp)
    IN  /\ after = Outcome(Response("logout", 302, LoginPage, 0, DeleteCookie, {}, 0), db)
        /\ dropped = NoCookie
        /\ \A r \in AuthRoutes(dropped) : r = Outcome(RedirectToLogin(r.resp.route), db)
        /\ \A t \in {x \in Times : x >= now} :
              get_current_user(jar, after.db, t) = get_current_user(jar, db, t)
        /\ (~Unauthenticated(jar)) =>
              \A t \in {x \in Times : x >= now /\ x - jar.ts <= SESSION_MAX_AGE} :
                  get_current_user(jar, after.db, t) = [status |-> 200, user |-> jar.user_id]

\* C7's case: the browser has logged out (only logout empties the jar once a
\* user has registered), time has passed, and the token issued at time 0 to the
\* first user still resolves.
C7_Witness ==
    /\ jar = NoCookie
    /\ db.users # {}
    /\ now = SESSION_MAX_AGE
    /\ get_current_user(create_session_token(1, 0), db, now) = [status |-> 200, user |-> 1]
    /\ dashboard(db, now, jar) = Outcome(RedirectToLogin("dashboard"), db)

RECURSIVE SumBalance(_)
SumBalance(rows) ==
    IF rows = {} THEN 0
    ELSE LET r == CHOOSE x \in rows : TRUE
         IN  r.balance + SumBalance(rows \ {r})

\* C8: dashboard for user u lists exactly the groups u owns, each with the sum
\* of the amounts of its items (0 with none), and a grand total that is the sum
\* of the amounts of all items of u (0 with none) and so the sum of the listed
\* balances.
C8_Dashboard ==
    \A token \in Cookies(now) :
        LET page == dashboard(db, now, token).resp
            u == page.user
        IN  page.status = 200 =>
              /\ u = token.user_id
              /\ {r.group : r \in page.rows} = {g \in db.groups : g.user_id = u}
              /\ \A r \in page.rows :
                    r.balance = SumAmount({i \in db.items : i.group_id = r.group.id})
              /\ Cardinality(page.rows) = Cardinality({g \in db.groups : g.user_id = u})
              /\ page.total = SumAmount({i \in db.items : i.user_id = u})
              /\ page.total = SumBalance(page.rows)

\* C8's case: the browser's user has a group with items 10 and -3 and an empty
\* group, and the dashboard shows balances 7 and 0 and total 7.
C8_Witness ==
    LET page == dashboard(db, now, jar).resp
    IN  /\ page.status = 200
        /\ {r.balance : r \in page.rows} = {7, 0}
        /\ page.total = 7
        /\ Cardinality(db.items) = 2

\* C9: under interleaving of lookups and commits, every stored item's group_id
\* is the id of a stored group.
C9_ItemsHaveGroups ==
    \A i \in db.items : \E g \in db.groups : g.id = i.group_id

\* C9's case: an add_item looked its group up, a delete_group of that group
\* committed, and the insert is refused.
C9_Witness ==
    \E r \in BagToSet(reqs) :
        /\ r.route = "add_item"
        /\ r.group_id \notin GroupIds(db)
        /\ \A id \in RowIds : commit(db, now, r, id).db = db

\* C10: no two user rows share a username, and a register whose username is
\* present at its commit is answered with status 400.
C10_UniqueUsernameConflict ==
    /\ \A u \in db.users, v \in db.users : u.username = v.username => u = v
    /\ \A r \in BagToSet(reqs) :
          (r.route = "register" /\ \E u \in db.users : u.username = r.username)
          => commit(db, now, r, 0).resp.status = 400

====
